---- MODULE Spec2Model ----
(***************************************************************************)
(* Model of the interview availability engine of                           *)
(* candidate_fyi_takehome_project/interviews/views.py.                      *)
(*                                                                         *)
(* One GET /api/interviews/{id}/available-slots request is followed from   *)
(* the template lookup to the response.  The position inside               *)
(* InterviewAvailabilityView.get is the variable pc; the sweep loop of     *)
(* compute_common_free_windows advances one event timestamp per step.      *)
(*                                                                         *)
(* Time.  A datetime is an integer: the milliseconds elapsed since         *)
(* 00:00:00.000 UTC of day 0 of the model.  Python resolves microseconds;  *)
(* the code reads dt.second and dt.microsecond only to test them for zero  *)
(* (views.py:85), so one unit below the second carries every case.         *)
(*                                                                         *)
(* An optional value (a query parameter that may be absent, a key that a   *)
(* busy block may lack) is a sequence: <<>> when absent, <<v>> when set.   *)
(*                                                                         *)
(* An ISO 8601 string is a record [wall |-> w, tz |-> z]: the wall clock   *)
(* reading w it spells and its zone designator z.                          *)
(***************************************************************************)
EXTENDS Integers, Sequences, FiniteSets

\* ------------------------------------------------------------------ time

\* timedelta(minutes=m), timedelta(hours=h), timedelta(days=d)
timedelta_minutes(m) == m * 60 * 1000
timedelta_hours(h) == timedelta_minutes(60 * h)
timedelta_days(d) == timedelta_hours(24 * d)

\* dt.minute, and the part of dt below the minute (dt.second, dt.microsecond)
minute_of(dt) == (dt \div timedelta_minutes(1)) % 60
sub_minute_of(dt) == dt % timedelta_minutes(1)

\* dt.replace(hour=h, minute=0, second=0, microsecond=0): same date, h:00
replace_hour(dt, h) == (dt - (dt % timedelta_days(1))) + timedelta_hours(h)

\* The instant day d, hh:mm:00.000 UTC plus ms milliseconds.
At(d, hh, mm, ms) == timedelta_days(d) + timedelta_hours(hh) + timedelta_minutes(mm) + ms

Max(a, b) == IF a >= b THEN a ELSE b
Min(a, b) == IF a <= b THEN a ELSE b

\* Optional values.
Absent == <<>>
Some(v) == <<v>>
IsSet(o) == Len(o) > 0
Val(o) == o[1]

\* ------------------------------------------------------------- constants

\* views.py:18-21
HALF_HOUR == timedelta_minutes(30)
DEFAULT_SEARCH_DAYS == 7
DEFAULT_START_HOUR == 9
DEFAULT_END_HOUR == 17

\* ------------------------------------------------- helpers (time, parsing)

\* Minutes east of UTC that a zone designator stands for; a string with no
\* designator parses naive and is then taken as UTC (views.py:36).
UtcOffsetMinutes(tz) ==
    CASE tz = "Z" -> 0
      [] tz = "naive" -> 0
      [] tz = "+01:00" -> 60
      [] tz = "-02:00" -> 0 - 120

\* parse_iso8601: the instant an ISO 8601 string denotes.
parse_iso8601(iso_string) ==
    iso_string.wall - timedelta_minutes(UtcOffsetMinutes(iso_string.tz))

\* to_iso8601_utc: the UTC wall clock reading of dt, with a trailing Z.
to_iso8601_utc(dt) == [wall |-> dt, tz |-> "Z"]

\* intersect_half_open_interval: <<start, end>>, or <<>> for None.
intersect_half_open_interval(start1, end1, start2, end2) ==
    LET start == Max(start1, start2)
        end == Min(end1, end2)
    IN IF start < end THEN <<start, end>> ELSE <<>>

\* ceil_to_half_hour_boundary that drops the seconds and microseconds without
\* moving to the next minute.
ceil_to_half_hour_boundary_DropsResidue(dt) ==
    LET d1 == dt - sub_minute_of(dt)
        remainder == minute_of(d1) % 30
    IN IF remainder # 0
       THEN d1 + timedelta_minutes(30 - remainder)
       ELSE d1

\* ceil_to_half_hour_boundary without the test of the remainder: an instant on
\* a boundary moves 30 minutes on.
ceil_to_half_hour_boundary_AlwaysAdvances(dt) ==
    LET floored == dt - sub_minute_of(dt)
        d1 == IF sub_minute_of(dt) # 0
              THEN floored + timedelta_minutes(1)
              ELSE floored
        remainder == minute_of(d1) % 30
    IN d1 + timedelta_minutes(30 - remainder)

\* ceil_to_half_hour_boundary that rounds the minute and keeps the seconds.
ceil_to_half_hour_boundary_KeepsSeconds(dt) ==
    LET remainder == minute_of(dt) % 30
    IN IF remainder # 0
       THEN dt + timedelta_minutes(30 - remainder)
       ELSE dt

\* ceil_to_half_hour_boundary
ceil_to_half_hour_boundary(dt) ==
    LET floored == dt - sub_minute_of(dt)
        d1 == IF sub_minute_of(dt) # 0
              THEN floored + timedelta_minutes(1)
              ELSE floored
        remainder == minute_of(d1) % 30
    IN IF remainder # 0
       THEN d1 + timedelta_minutes(30 - remainder)
       ELSE d1

\* is_within_workday_utc with the closing time taken on the date of slot_end.
is_within_workday_utc_EndDate(slot_start, slot_end, workday_start_hour, workday_end_hour) ==
    LET day_open == replace_hour(slot_start, workday_start_hour)
        day_close == replace_hour(slot_end, workday_end_hour)
    IN day_open <= slot_start /\ slot_end <= day_close

\* is_within_workday_utc
is_within_workday_utc(slot_start, slot_end, workday_start_hour, workday_end_hour) ==
    LET day_open == replace_hour(slot_start, workday_start_hour)
        day_close == replace_hour(slot_start, workday_end_hour)
    IN day_open <= slot_start /\ slot_end <= day_close

\* ------------------------------------------------- busy-timeline merger

\* block.get("start") or block.get("startTime"), and the same for the end
\* (views.py:120-121).
raw_start_of(block) == IF IsSet(block.start) THEN block.start ELSE block.startTime
raw_end_of(block) == IF IsSet(block.end) THEN block.end ELSE block.endTime

\* BlockEvents with the deltas exchanged: -1 at the clipped start and +1 at the
\* clipped end.
BlockEvents_SwappedDeltas(block, search_start, search_end) ==
    LET raw_start == raw_start_of(block)
        raw_end == raw_end_of(block)
    IN IF ~IsSet(raw_start) \/ ~IsSet(raw_end)
       THEN <<>>
       ELSE LET busy_start == parse_iso8601(Val(raw_start))
                busy_end == parse_iso8601(Val(raw_end))
            IN IF busy_start >= busy_end
               THEN <<>>
               ELSE LET overlap == intersect_half_open_interval(
                                       busy_start, busy_end, search_start, search_end)
                    IN IF overlap # <<>>
                       THEN << <<overlap[1], 0 - 1>>, <<overlap[2], 1>> >>
                       ELSE <<>>

\* BlockEvents without the clip to the search window: the events stand at the
\* block's own bounds.
BlockEvents_Unclipped(block, search_start, search_end) ==
    LET raw_start == raw_start_of(block)
        raw_end == raw_end_of(block)
    IN IF ~IsSet(raw_start) \/ ~IsSet(raw_end)
       THEN <<>>
       ELSE LET busy_start == parse_iso8601(Val(raw_start))
                busy_end == parse_iso8601(Val(raw_end))
            IN IF busy_start >= busy_end
               THEN <<>>
               ELSE << <<busy_start, 1>>, <<busy_end, 0 - 1>> >>

\* BlockEvents that takes a block with a start and no end as busy from its
\* start to the end of the search window.
BlockEvents_OpenEnded(block, search_start, search_end) ==
    LET raw_start == raw_start_of(block)
        raw_end == raw_end_of(block)
    IN IF ~IsSet(raw_start)
       THEN <<>>
       ELSE LET busy_start == parse_iso8601(Val(raw_start))
                busy_end == IF IsSet(raw_end)
                            THEN parse_iso8601(Val(raw_end)) ELSE search_end
            IN IF busy_start >= busy_end
               THEN <<>>
               ELSE LET overlap == intersect_half_open_interval(
                                       busy_start, busy_end, search_start, search_end)
                    IN IF overlap # <<>>
                       THEN << <<overlap[1], 1>>, <<overlap[2], 0 - 1>> >>
                       ELSE <<>>

\* The events one busy block contributes (views.py:120-139): none when a bound
\* is missing, when the block is not start < end, or when it does not meet the
\* search window; otherwise +1 at the clipped start and -1 at the clipped end.
BlockEvents(block, search_start, search_end) ==
    LET raw_start == raw_start_of(block)
        raw_end == raw_end_of(block)
    IN IF ~IsSet(raw_start) \/ ~IsSet(raw_end)
       THEN <<>>
       ELSE LET busy_start == parse_iso8601(Val(raw_start))
                busy_end == parse_iso8601(Val(raw_end))
            IN IF busy_start >= busy_end
               THEN <<>>
               ELSE LET overlap == intersect_half_open_interval(
                                       busy_start, busy_end, search_start, search_end)
                    IN IF overlap # <<>>
                       THEN << <<overlap[1], 1>>, <<overlap[2], 0 - 1>> >>
                       ELSE <<>>

\* for block in person.get("busy", []) (views.py:119)
RECURSIVE PersonEvents(_, _, _)
PersonEvents(busy, search_start, search_end) ==
    IF busy = <<>>
    THEN <<>>
    ELSE BlockEvents(Head(busy), search_start, search_end)
         \o PersonEvents(Tail(busy), search_start, search_end)

\* for person in busy_schedules (views.py:118)
RECURSIVE ScheduleEvents(_, _, _)
ScheduleEvents(busy_schedules, search_start, search_end) ==
    IF busy_schedules = <<>>
    THEN <<>>
    ELSE PersonEvents(Head(busy_schedules).busy, search_start, search_end)
         \o ScheduleEvents(Tail(busy_schedules), search_start, search_end)

\* EventKeyLess with the key (item[1], item[0]): the delta first.
EventKeyLess_DeltaFirst(a, b) == a[2] < b[2] \/ (a[2] = b[2] /\ a[1] < b[1])

\* The sort key (item[0], item[1]) compared as Python compares tuples
\* (views.py:146).
EventKeyLess(a, b) == a[1] < b[1] \/ (a[1] = b[1] /\ a[2] < b[2])

\* One event put in its place in a sorted list, after the events whose key is
\* not greater: list.sort is stable.
RECURSIVE InsertEvent(_, _)
InsertEvent(sorted, ev) ==
    IF sorted = <<>>
    THEN <<ev>>
    ELSE IF EventKeyLess(ev, Head(sorted))
         THEN <<ev>> \o sorted
         ELSE <<Head(sorted)>> \o InsertEvent(Tail(sorted), ev)

\* SortEvents that leaves the events in the order they were appended.
SortEvents_Unsorted(evs) == evs

\* events.sort(key=lambda item: (item[0], item[1]))
RECURSIVE SortEvents(_)
SortEvents(evs) ==
    IF evs = <<>>
    THEN <<>>
    ELSE InsertEvent(SortEvents(SubSeq(evs, 1, Len(evs) - 1)), evs[Len(evs)])

\* The event list of compute_common_free_windows as the sweep receives it
\* (views.py:116-146): the blocks' events, the two boundary markers, sorted.
BuildEventList(busy_schedules, search_start, search_end) ==
    SortEvents(ScheduleEvents(busy_schedules, search_start, search_end)
               \o << <<search_start, 0>>, <<search_end, 0>> >>)

\* SumDeltasAt that takes the one event at position i and no other event of
\* the same timestamp.
SumDeltasAt_OneEvent(evs, i, t, delta_sum) == <<delta_sum + evs[i + 1][2], i + 1>>

\* The inner loop of the sweep (views.py:163-166): from the 0-based position i,
\* the sum of the deltas of the events at timestamp t and the position after
\* the last of them, as <<delta_sum, i>>.
RECURSIVE SumDeltasAt(_, _, _, _)
SumDeltasAt(evs, i, t, delta_sum) ==
    IF i < Len(evs) /\ evs[i + 1][1] = t
    THEN SumDeltasAt(evs, i + 1, t, delta_sum + evs[i + 1][2])
    ELSE <<delta_sum, i>>

\* SweepIteration with the window test t >= prev_time.
SweepIteration_EmptyGaps(evs, st) ==
    LET t == evs[st.i + 1][1]
        summed == SumDeltasAt(evs, st.i, t, 0)
    IN [i |-> summed[2],
        active_busy |-> st.active_busy + summed[1],
        prev_time |-> t,
        free_windows |-> IF st.active_busy = 0 /\ t >= st.prev_time
                         THEN Append(st.free_windows, <<st.prev_time, t>>)
                         ELSE st.free_windows]

\* SweepIteration with the busy count left out of the window test.
SweepIteration_AnyGap(evs, st) ==
    LET t == evs[st.i + 1][1]
        summed == SumDeltasAt(evs, st.i, t, 0)
    IN [i |-> summed[2],
        active_busy |-> st.active_busy + summed[1],
        prev_time |-> t,
        free_windows |-> IF t > st.prev_time
                         THEN Append(st.free_windows, <<st.prev_time, t>>)
                         ELSE st.free_windows]

\* One pass of the outer loop of the sweep (views.py:155-169) from the state
\* st = [i, active_busy, prev_time, free_windows].
SweepIteration(evs, st) ==
    LET t == evs[st.i + 1][1]
        summed == SumDeltasAt(evs, st.i, t, 0)
    IN [i |-> summed[2],
        active_busy |-> st.active_busy + summed[1],
        prev_time |-> t,
        free_windows |-> IF st.active_busy = 0 /\ t > st.prev_time
                         THEN Append(st.free_windows, <<st.prev_time, t>>)
                         ELSE st.free_windows]

\* The sweep from the state st to the end of the event list (views.py:155-171).
RECURSIVE RunSweep(_, _)
RunSweep(evs, st) ==
    IF st.i < Len(evs) THEN RunSweep(evs, SweepIteration(evs, st)) ELSE st

\* compute_common_free_windows as a whole: the windows it returns.
compute_common_free_windows(busy_schedules, search_start, search_end) ==
    RunSweep(BuildEventList(busy_schedules, search_start, search_end),
             [i |-> 0, active_busy |-> 0, prev_time |-> search_start,
              free_windows |-> <<>>]).free_windows

\* ---------------------------------------------------------- slot expander

\* WindowSlots with the loop test slot_start < last_valid_start.
WindowSlots_StrictEnd(slot_start, last_valid_start, duration_delta, start_hour, end_hour) ==
    LET passes == IF slot_start < last_valid_start
                  THEN ((last_valid_start - slot_start - 1) \div HALF_HOUR) + 1
                  ELSE 0
        tried == [k \in 1..passes |-> slot_start + (k - 1) * HALF_HOUR]
        within_hours(s) == is_within_workday_utc(s, s + duration_delta,
                                                 start_hour, end_hour)
        kept == SelectSeq(tried, within_hours)
    IN [k \in 1..Len(kept) |->
            [start |-> to_iso8601_utc(kept[k]),
             end |-> to_iso8601_utc(kept[k] + duration_delta)]]

\* The while loop of views.py:261-273 for one window.  From slot_start the
\* loop adds HALF_HOUR after every pass and stops at the first start beyond
\* last_valid_start, so its passes try, in order, the starts
\* slot_start + k * HALF_HOUR that are <= last_valid_start; a pass appends
\* its slot when the slot is within the workday.
WindowSlots(slot_start, last_valid_start, duration_delta, start_hour, end_hour) ==
    LET passes == IF slot_start <= last_valid_start
                  THEN ((last_valid_start - slot_start) \div HALF_HOUR) + 1
                  ELSE 0
        tried == [k \in 1..passes |-> slot_start + (k - 1) * HALF_HOUR]
        within_hours(s) == is_within_workday_utc(s, s + duration_delta,
                                                 start_hour, end_hour)
        kept == SelectSeq(tried, within_hours)
    IN [k \in 1..Len(kept) |->
            [start |-> to_iso8601_utc(kept[k]),
             end |-> to_iso8601_utc(kept[k] + duration_delta)]]

\* ExpandWindows with last_valid_start = window_end: the duration is not
\* taken off the end of the window.
RECURSIVE ExpandWindows_NoFit(_, _, _, _, _)
ExpandWindows_NoFit(windows, min_start, duration_delta, start_hour, end_hour) ==
    IF windows = <<>>
    THEN <<>>
    ELSE LET window_start == Head(windows)[1]
             window_end == Head(windows)[2]
             slot_start == ceil_to_half_hour_boundary(Max(window_start, min_start))
         IN WindowSlots(slot_start, window_end, duration_delta, start_hour, end_hour)
            \o ExpandWindows_NoFit(Tail(windows), min_start, duration_delta,
                                   start_hour, end_hour)

\* ExpandWindows that puts the slots of a later window before those of an
\* earlier one.
RECURSIVE ExpandWindows_LastWindowFirst(_, _, _, _, _)
ExpandWindows_LastWindowFirst(windows, min_start, duration_delta, start_hour, end_hour) ==
    IF windows = <<>>
    THEN <<>>
    ELSE LET window_start == Head(windows)[1]
             window_end == Head(windows)[2]
             slot_start == ceil_to_half_hour_boundary(Max(window_start, min_start))
             last_valid_start == window_end - duration_delta
         IN ExpandWindows_LastWindowFirst(Tail(windows), min_start, duration_delta,
                                          start_hour, end_hour)
            \o WindowSlots(slot_start, last_valid_start, duration_delta,
                           start_hour, end_hour)

\* The for loop of views.py:255-273 over the free windows.
RECURSIVE ExpandWindows(_, _, _, _, _)
ExpandWindows(windows, min_start, duration_delta, start_hour, end_hour) ==
    IF windows = <<>>
    THEN <<>>
    ELSE LET window_start == Head(windows)[1]
             window_end == Head(windows)[2]
             slot_start == ceil_to_half_hour_boundary(Max(window_start, min_start))
             last_valid_start == window_end - duration_delta
         IN WindowSlots(slot_start, last_valid_start, duration_delta,
                        start_hour, end_hour)
            \o ExpandWindows(Tail(windows), min_start, duration_delta,
                             start_hour, end_hour)

\* ---------------------------------------------------------------- inputs

\* The most busy blocks the schedule provider returns for one interviewer.
MaxBlocks == 1

Iso(wall, tz) == [wall |-> wall, tz |-> tz]

\* A busy block as the provider spells it: the keys it carries.
Block(start, end, startTime, endTime) ==
    [start |-> start, end |-> end, startTime |-> startTime, endTime |-> endTime]

\* A block {"start": ..., "end": ...} of two UTC strings with a trailing Z, as
\* generate_busy_blocks writes them (mock_availability.py:35-38).
ZBlock(s, e) == Block(Some(Iso(s, "Z")), Some(Iso(e, "Z")), Absent, Absent)

\* The blocks the provider draws from; all on day 1:
\*   11:00-12:00 UTC written with the offset +01:00;
\*   10:40:00.001-11:20:30 under the keys startTime/endTime, without a zone;
\*   a block with no end; a block whose end is before its start.
BlockChoices ==
    { Block(Some(Iso(At(1, 12, 0, 0), "+01:00")), Some(Iso(At(1, 13, 0, 0), "+01:00")),
            Absent, Absent),
      Block(Absent, Absent,
            Some(Iso(At(1, 10, 40, 1), "naive")), Some(Iso(At(1, 11, 20, 30000), "naive"))),
      Block(Some(Iso(At(1, 13, 0, 0), "Z")), Absent, Absent, Absent),
      ZBlock(At(1, 15, 0, 0), At(1, 14, 0, 0)) }

\* The sequences over S of length at most n.
SeqsUpTo(S, n) == UNION { [1..k -> S] : k \in 0..n }

Person(id, busy) == [interviewerId |-> id, name |-> "Unknown", busy |-> busy]

\* The schedules of the happy-path tests (tests.py:93-111, 245-253) and the
\* two touching blocks of two interviewers.
FixtureSchedule ==
    << Person(1, << ZBlock(At(1, 9, 30, 0), At(1, 10, 30, 0)),
                    ZBlock(At(1, 13, 0, 0), At(1, 13, 30, 0)) >>),
       Person(2, << ZBlock(At(1, 10, 0, 0), At(1, 11, 0, 0)),
                    ZBlock(At(1, 15, 30, 0), At(1, 17, 0, 0)) >>) >>
TouchingSchedule ==
    << Person(1, << ZBlock(At(1, 10, 0, 0), At(1, 11, 0, 0)) >>),
       Person(2, << ZBlock(At(1, 11, 0, 0), At(1, 12, 0, 0)) >>) >>

\* What get_free_busy_data may return for the interviewer ids: one entry per
\* id, in the order of the ids (mock_availability.py:48-54), each with a list
\* of busy blocks.
ProviderReturns(ids) ==
    { [j \in 1..Len(ids) |-> Person(ids[j], b[j])] :
          b \in [1..Len(ids) -> SeqsUpTo(BlockChoices, MaxBlocks)] }
    \cup (IF ids = <<1, 2>> THEN {FixtureSchedule, TouchingSchedule} ELSE {})

\* The rows of InterviewTemplate the request may name (models.py:10-13): a
\* duration in minutes and the interviewers' ids.
Durations == {45, 60}
Templates ==
    { [duration |-> d, interviewers |-> ids] :
          d \in Durations, ids \in {<<>>, <<1>>, <<1, 2>>} }

\* The query parameters (serializers.py:7-10), each optional.
StartChoices == {Absent, Some(At(1, 9, 0, 0))}
EndChoices == {Absent, Some(At(1, 17, 0, 0)), Some(At(1, 9, 0, 0))}
StartHourChoices == {Absent, Some(17)}
EndHourChoices == {Absent, Some(12), Some(24)}
Queries ==
    [start : StartChoices, end : EndChoices,
     start_hour : StartHourChoices, end_hour : EndHourChoices]

\* The readings of datetime.now(timezone.utc) (views.py:224): day 0, 08:00
\* and day 0, 10:20:30.500.
NowChoices == {At(0, 8, 0, 0), At(0, 10, 20, 30500)}

\* ---------------------------------------------------------------- state

VARIABLES
    pc,                 \* the position in InterviewAvailabilityView.get
    template,           \* the InterviewTemplate row of the id, if there is one
    query_params,       \* request.query_params
    status_code,        \* the response's status; 0 while there is none
    now_utc, search_start, search_end,
    workday_start_hour, workday_end_hour, min_slot_start,
    provider_calls,     \* the calls of get_free_busy_data made
    busy_schedules,
    sweeps,             \* the calls of compute_common_free_windows made
    events, i, active_busy, prev_time, free_windows,
    available_slots,    \* payload["availableSlots"]; <<>> while there is none
    ceil_arg,           \* an instant handed to ceil_to_half_hour_boundary
    ceil_results        \* what the function returned for it, and then for
                        \* its own result

vars == <<pc, template, query_params, status_code, now_utc, search_start, search_end,
          workday_start_hour, workday_end_hour, min_slot_start, provider_calls,
          busy_schedules, sweeps, events, i, active_busy, prev_time, free_windows,
          available_slots, ceil_arg, ceil_results>>

ceilVars == <<ceil_arg, ceil_results>>
windowVars == <<now_utc, search_start, search_end,
                workday_start_hour, workday_end_hour, min_slot_start>>
sweepVars == <<sweeps, events, i, active_busy, prev_time, free_windows>>

Init ==
    /\ pc = "load_template"
    /\ template \in {Absent} \cup { Some(t) : t \in Templates }
    /\ query_params \in Queries
    /\ status_code = 0
    /\ now_utc = 0 /\ search_start = 0 /\ search_end = 0
    /\ workday_start_hour = 0 /\ workday_end_hour = 0 /\ min_slot_start = 0
    /\ provider_calls = 0
    /\ busy_schedules = <<>>
    /\ sweeps = 0
    /\ events = <<>> /\ i = 0 /\ active_busy = 0 /\ prev_time = 0
    /\ free_windows = <<>>
    /\ available_slots = <<>>
    /\ ceil_arg = 0 /\ ceil_results = <<>>

\* views.py:209-216: the template is loaded, or the request ends 404.
LoadTemplate ==
    /\ pc = "load_template"
    /\ IF IsSet(template)
       THEN pc' = "validate" /\ status_code' = status_code
       ELSE pc' = "done" /\ status_code' = 404
    /\ UNCHANGED <<ceilVars, template, query_params, windowVars, provider_calls,
                   busy_schedules, sweepVars, available_slots>>

\* AvailabilityQuerySerializer (serializers.py:5-25): the hours are in 0..23,
\* and when both ends of a pair are given they are in order.
QueryIsValid(q) ==
    /\ IsSet(q.start_hour) => (0 <= Val(q.start_hour) /\ Val(q.start_hour) <= 23)
    /\ IsSet(q.end_hour) => (0 <= Val(q.end_hour) /\ Val(q.end_hour) <= 23)
    /\ ~(IsSet(q.start) /\ IsSet(q.end) /\ Val(q.end) <= Val(q.start))
    /\ ~(IsSet(q.start_hour) /\ IsSet(q.end_hour)
         /\ Val(q.start_hour) >= Val(q.end_hour))

\* views.py:219-221: q.is_valid(raise_exception=True).
ValidateQuery ==
    /\ pc = "validate"
    /\ IF QueryIsValid(query_params)
       THEN pc' = "resolve" /\ status_code' = status_code
       ELSE pc' = "done" /\ status_code' = 400
    /\ UNCHANGED <<ceilVars, template, query_params, windowVars, provider_calls,
                   busy_schedules, sweepVars, available_slots>>

\* search_range_rejected without the guard.
search_range_rejected_Never(start, end) == FALSE

\* views.py:232: the guard on the search range after the defaults.
search_range_rejected(start, end) == end <= start

\* views.py:238: the guard on the workday hours after the defaults.
workday_hours_rejected(start_hour, end_hour) == start_hour >= end_hour

\* MinSlotStart without the 24h rule.
MinSlotStart_NoNotice(start, earliest_allowed) ==
    ceil_to_half_hour_boundary(start)

\* views.py:242: the least slot start, with the 24h rule and the alignment.
MinSlotStart(start, earliest_allowed) ==
    ceil_to_half_hour_boundary(Max(start, earliest_allowed))

\* views.py:224-242: the clock is read, the defaults are applied, the two
\* defensive guards run and the least slot start is fixed.
ResolveWindow ==
    /\ pc = "resolve"
    /\ \E now \in NowChoices :
        LET earliest_allowed == now + timedelta_hours(24)
            start == IF IsSet(query_params.start)
                     THEN Val(query_params.start) ELSE earliest_allowed
            end == IF IsSet(query_params.end)
                   THEN Val(query_params.end)
                   ELSE start + timedelta_days(DEFAULT_SEARCH_DAYS)
            sh == IF IsSet(query_params.start_hour)
                  THEN Val(query_params.start_hour) ELSE DEFAULT_START_HOUR
            eh == IF IsSet(query_params.end_hour)
                  THEN Val(query_params.end_hour) ELSE DEFAULT_END_HOUR
        IN /\ now_utc' = now
           /\ search_start' = start
           /\ search_end' = end
           /\ IF search_range_rejected(start, end)
              THEN /\ pc' = "done" /\ status_code' = 400
                   /\ UNCHANGED <<workday_start_hour, workday_end_hour, min_slot_start>>
              ELSE /\ workday_start_hour' = sh
                   /\ workday_end_hour' = eh
                   /\ IF workday_hours_rejected(sh, eh)
                      THEN /\ pc' = "done" /\ status_code' = 400
                           /\ UNCHANGED min_slot_start
                      ELSE /\ pc' = "fetch" /\ status_code' = status_code
                           /\ min_slot_start' = MinSlotStart(start, earliest_allowed)
    /\ UNCHANGED <<ceilVars, template, query_params, provider_calls, busy_schedules,
                   sweepVars, available_slots>>

\* views.py:245-247: the schedule provider is asked for the interviewers.
FetchBusy ==
    /\ pc = "fetch"
    /\ \E returned \in ProviderReturns(Val(template).interviewers) :
           busy_schedules' = returned
    /\ provider_calls' = provider_calls + 1
    /\ pc' = "build_events"
    /\ UNCHANGED <<ceilVars, template, query_params, status_code, windowVars,
                   sweepVars, available_slots>>

\* views.py:250, 116-152: compute_common_free_windows is entered; the events
\* are collected and sorted and the sweep's variables are set.
BuildEvents ==
    /\ pc = "build_events"
    /\ sweeps' = sweeps + 1
    /\ events' = BuildEventList(busy_schedules, search_start, search_end)
    /\ free_windows' = <<>>
    /\ active_busy' = 0
    /\ prev_time' = search_start
    /\ i' = 0
    /\ pc' = "sweep"
    /\ UNCHANGED <<ceilVars, template, query_params, status_code, windowVars,
                   provider_calls, busy_schedules, available_slots>>

\* views.py:155-171: one pass of the sweep's outer loop; after the last event
\* the windows are returned to the view.
SweepStep ==
    /\ pc = "sweep"
    /\ i < Len(events)
    /\ LET next == SweepIteration(events,
                       [i |-> i, active_busy |-> active_busy,
                        prev_time |-> prev_time, free_windows |-> free_windows])
       IN /\ i' = next.i
          /\ active_busy' = next.active_busy
          /\ prev_time' = next.prev_time
          /\ free_windows' = next.free_windows
          /\ pc' = IF next.i < Len(events) THEN "sweep" ELSE "expand"
    /\ UNCHANGED <<ceilVars, template, query_params, status_code, windowVars,
                   provider_calls, busy_schedules, sweeps, events, available_slots>>

\* views.py:253-311: the windows are expanded into slots, the payload is
\* assembled and the response is 200.  The human-readable mirror is a
\* projection of the slots and of the busy blocks that have both bounds; it
\* changes nothing the engine computes and is left out of the state.
ExpandAndRespond ==
    /\ pc = "expand"
    /\ available_slots' =
           ExpandWindows(free_windows, min_slot_start,
                         timedelta_minutes(Val(template).duration),
                         workday_start_hour, workday_end_hour)
    /\ status_code' = 200
    /\ pc' = "done"
    /\ UNCHANGED <<ceilVars, template, query_params, windowVars, provider_calls,
                   busy_schedules, sweepVars>>

Next ==
    \/ LoadTemplate
    \/ ValidateQuery
    \/ ResolveWindow
    \/ FetchBusy
    \/ BuildEvents
    \/ SweepStep
    \/ ExpandAndRespond

Spec == Init /\ [][Next]_vars

\* ------------------------------------------- the ceiling, called alone

\* The instants ceil_to_half_hour_boundary is called with: around the hour,
\* the half hour and midnight, with and without seconds and milliseconds.
CeilInputs ==
    { At(1, hh, mm, ms) :
          hh \in {12, 23}, mm \in {0, 1, 29, 30, 31, 59},
          ms \in {0, 1, 999, 1000, 59999} }

InitCeil ==
    /\ pc = "ceil"
    /\ template = Absent
    /\ query_params = [start |-> Absent, end |-> Absent,
                       start_hour |-> Absent, end_hour |-> Absent]
    /\ status_code = 0
    /\ now_utc = 0 /\ search_start = 0 /\ search_end = 0
    /\ workday_start_hour = 0 /\ workday_end_hour = 0 /\ min_slot_start = 0
    /\ provider_calls = 0
    /\ busy_schedules = <<>>
    /\ sweeps = 0
    /\ events = <<>> /\ i = 0 /\ active_busy = 0 /\ prev_time = 0
    /\ free_windows = <<>>
    /\ available_slots = <<>>
    /\ ceil_arg \in CeilInputs
    /\ ceil_results = <<>>

\* views.py:76-92: the function is called, first with ceil_arg and then with
\* what it returned.
ApplyCeil ==
    /\ pc = "ceil"
    /\ Len(ceil_results) < 2
    /\ ceil_results' =
           Append(ceil_results,
                  ceil_to_half_hour_boundary(
                      IF ceil_results = <<>> THEN ceil_arg
                      ELSE ceil_results[Len(ceil_results)]))
    /\ UNCHANGED <<pc, template, query_params, status_code, windowVars,
                   provider_calls, busy_schedules, sweepVars, available_slots,
                   ceil_arg>>

NextCeil == ApplyCeil

SpecCeil == InitCeil /\ [][NextCeil]_vars

\* ------------------------------------------------------------ properties

\* The request has been answered with a slot list.
Responded == pc = "done" /\ status_code = 200

\* The emitted slots as a consumer of the payload reads them.
SlotIndices == 1..Len(available_slots)
SlotStart(k) == parse_iso8601(available_slots[k].start)
SlotEnd(k) == parse_iso8601(available_slots[k].end)
EmittedSlots == { <<SlotStart(k), SlotEnd(k)>> : k \in SlotIndices }

DurationDelta == timedelta_minutes(Val(template).duration)

\* A busy block that has both bounds, with start < end.
BlockIsValid(block) ==
    /\ IsSet(raw_start_of(block))
    /\ IsSet(raw_end_of(block))
    /\ parse_iso8601(Val(raw_start_of(block))) < parse_iso8601(Val(raw_end_of(block)))

\* The valid busy intervals <<bs, be>> of one subject, and of all subjects.
ValidBusyOf(person) ==
    { <<parse_iso8601(Val(raw_start_of(person.busy[j]))),
        parse_iso8601(Val(raw_end_of(person.busy[j])))>> :
          j \in { n \in 1..Len(person.busy) : BlockIsValid(person.busy[n]) } }
ValidBusy == UNION { ValidBusyOf(busy_schedules[p]) : p \in 1..Len(busy_schedules) }

\* Some instant t has s <= t < e and bs <= t < be.
Overlap(s, e, bs, be) == Max(s, bs) < Min(e, be)

\* The least instant on the 30-minute grid that is >= x, and the grid
\* instants from lo to hi.
CeilToGrid(x) == ((x + timedelta_minutes(30) - 1) \div timedelta_minutes(30))
                 * timedelta_minutes(30)
GridInstants(lo, hi) ==
    { g * timedelta_minutes(30) :
          g \in (lo \div timedelta_minutes(30))..(hi \div timedelta_minutes(30)) }

\* The workday containment test of a slot [s, e): on the calendar day of s,
\* dayOpen <= s and e <= dayClose.
DayOf(s) == s \div timedelta_days(1)
InWorkday(s, e) ==
    /\ At(DayOf(s), workday_start_hour, 0, 0) <= s
    /\ e <= At(DayOf(s), workday_end_hour, 0, 0)

\* C1: in every response with slots, no valid busy interval of any subject
\* overlaps an emitted slot.
C1_AllFree ==
    Responded =>
        LET busy == ValidBusy
        IN \A sl \in EmittedSlots : \A iv \in busy :
               ~Overlap(sl[1], sl[2], iv[1], iv[2])

\* A response with slots in which a subject has a valid busy interval inside
\* the search window, with a slot emitted before it and a slot after it.
C1_Witness ==
    /\ Responded
    /\ \E iv \in ValidBusy :
        /\ search_start <= iv[1] /\ iv[2] <= search_end
        /\ \E sl \in EmittedSlots : sl[1] >= iv[2]
        /\ \E sl \in EmittedSlots : sl[2] <= iv[1]

\* A slot [s, s + duration) that qualifies, the valid busy intervals being
\* busy: on the grid, not before the aligned notice floor, inside the search
\* window, free of every busy interval, and within the workday.
Qualifies(s, busy) ==
    /\ s % timedelta_minutes(30) = 0
    /\ s >= CeilToGrid(Max(search_start, now_utc + timedelta_hours(24)))
    /\ search_start <= s /\ s + DurationDelta <= search_end
    /\ InWorkday(s, s + DurationDelta)
    /\ \A iv \in busy : ~Overlap(s, s + DurationDelta, iv[1], iv[2])

\* C2: every qualifying slot is in the emitted slot list.
C2_AllQualifyingEmitted ==
    Responded =>
        LET busy == ValidBusy
            emitted == EmittedSlots
        IN \A s \in GridInstants(search_start, search_end) :
               Qualifies(s, busy) => <<s, s + DurationDelta>> \in emitted

\* A response where a qualifying slot ends exactly where a busy interval
\* starts and another starts exactly where one ends.
C2_Witness ==
    /\ Responded
    /\ \E s \in GridInstants(search_start, search_end) :
        Qualifies(s, ValidBusy) /\ \E iv \in ValidBusy : s + DurationDelta = iv[1]
    /\ \E s \in GridInstants(search_start, search_end) :
        Qualifies(s, ValidBusy) /\ \E iv \in ValidBusy : s = iv[2]

\* C3: no emitted slot starts before the aligned instant 24 hours after now,
\* whatever search window was requested.
C3_NoticeFloor ==
    Responded =>
        \A sl \in EmittedSlots : sl[1] >= CeilToGrid(now_utc + timedelta_hours(24))

\* A response with slots to a request whose search window starts before
\* now + 24h.
C3_Witness ==
    /\ Responded
    /\ available_slots # <<>>
    /\ IsSet(query_params.start)
    /\ Val(query_params.start) < now_utc + timedelta_hours(24)

\* The free windows as a set.
FreeWindows == { free_windows[k] : k \in 1..Len(free_windows) }

\* C4: every emitted slot passes the workday containment test on the calendar
\* day of its start; none crosses the midnight that ends that day; and a
\* qualifying slot that ends exactly at dayClose is emitted.
C4_WorkdayContainment ==
    Responded =>
        LET busy == ValidBusy
            emitted == EmittedSlots
        IN /\ \A sl \in emitted :
               /\ InWorkday(sl[1], sl[2])
               /\ sl[2] <= At(DayOf(sl[1]) + 1, 0, 0, 0)
           /\ \A s \in GridInstants(search_start, search_end) :
               (/\ s + DurationDelta = At(DayOf(s), workday_end_hour, 0, 0)
                /\ Qualifies(s, busy))
               => <<s, s + DurationDelta>> \in emitted

\* A response with a slot that ends exactly at dayClose, computed from a free
\* window that also holds an aligned start, not before the floor, whose slot
\* would fit the window and cross midnight.
C4_Witness ==
    /\ Responded
    /\ \E sl \in EmittedSlots : sl[2] = At(DayOf(sl[1]), workday_end_hour, 0, 0)
    /\ \E w \in FreeWindows : \E s \in GridInstants(w[1], w[2]) :
        /\ w[1] <= s /\ s + DurationDelta <= w[2]
        /\ s >= min_slot_start
        /\ s + DurationDelta > At(DayOf(s) + 1, 0, 0, 0)

\* C5: the start of every emitted slot has minute 0 or 30 and nothing below
\* the minute.
C5_Alignment ==
    Responded =>
        \A sl \in EmittedSlots :
            /\ minute_of(sl[1]) \in {0, 30}
            /\ sub_minute_of(sl[1]) = 0

\* A response to a search window that starts off the grid, with a slot cut
\* from a free window that starts, after a busy interval, off the grid too.
C5_Witness ==
    /\ Responded
    /\ sub_minute_of(search_start) # 0
    /\ \E w \in FreeWindows :
        /\ w[1] > search_start
        /\ sub_minute_of(w[1]) # 0
        /\ \E sl \in EmittedSlots : sl[1] = CeilToGrid(w[1])

\* C6: every emitted slot is exactly the duration long and lies whole inside
\* one free window; no slot starts in a free window shorter than the duration.
C6_DurationExact ==
    Responded =>
        LET windows == FreeWindows
            emitted == EmittedSlots
        IN /\ \A sl \in emitted :
               /\ sl[2] - sl[1] = DurationDelta
               /\ \E w \in windows : w[1] <= sl[1] /\ sl[2] <= w[2]
           /\ \A w \in windows :
               w[2] - w[1] < DurationDelta
               => ~(\E sl \in emitted : w[1] <= sl[1] /\ sl[1] < w[2])

\* A response with slots and a free window shorter than the duration that
\* holds an aligned start, not before the floor and inside the workday.
C6_Witness ==
    /\ Responded
    /\ available_slots # <<>>
    /\ \E w \in FreeWindows :
        /\ w[2] - w[1] < DurationDelta
        /\ \E s \in GridInstants(w[1], w[2]) :
            /\ w[1] <= s /\ s < w[2]
            /\ s >= min_slot_start
            /\ InWorkday(s, w[2])

\* The search range and the workday hours after the defaults.
ResolvedStart ==
    IF IsSet(query_params.start)
    THEN Val(query_params.start) ELSE now_utc + timedelta_hours(24)
ResolvedEnd ==
    IF IsSet(query_params.end)
    THEN Val(query_params.end) ELSE ResolvedStart + timedelta_days(7)
ResolvedStartHour ==
    IF IsSet(query_params.start_hour) THEN Val(query_params.start_hour) ELSE 9
ResolvedEndHour ==
    IF IsSet(query_params.end_hour) THEN Val(query_params.end_hour) ELSE 17

\* The request is one the engine rejects: the template is unknown, or the
\* search range or the workday hours are not in order after the defaults.
Rejectable ==
    \/ ~IsSet(template)
    \/ ResolvedEnd <= ResolvedStart
    \/ ResolvedStartHour >= ResolvedEndHour

\* C7: a rejected request performs no computation.  A request that ends in
\* an error has called no provider, run no sweep and returned no slot; a
\* rejectable request ends in an error, 404 when the template is unknown; and
\* the provider is called and the sweep is run for no rejectable request.
C7_RejectedNoComputation ==
    /\ status_code \in {400, 404}
       => /\ pc = "done"
          /\ provider_calls = 0 /\ sweeps = 0
          /\ busy_schedules = <<>> /\ events = <<>> /\ free_windows = <<>>
          /\ available_slots = <<>>
    /\ (pc = "done" /\ Rejectable) => status_code \in {400, 404}
    /\ (pc = "done" /\ ~IsSet(template)) => status_code = 404
    /\ (provider_calls > 0 \/ sweeps > 0) => ~Rejectable

\* A request with a known template and query parameters the serializer
\* accepts, rejected by the view because the end is not after the defaulted
\* start.
C7_Witness ==
    /\ pc = "done" /\ status_code = 400
    /\ IsSet(template)
    /\ QueryIsValid(query_params)
    /\ ~IsSet(query_params.start)
    /\ ResolvedEnd <= ResolvedStart

\* The sweep has returned its windows.
Swept == pc \in {"expand", "done"} /\ sweeps > 0

\* Subject A is busy [10:00, 11:00) and subject B is busy [11:00, 12:00), and
\* the search window holds both intervals.
TouchingCase ==
    /\ busy_schedules = TouchingSchedule
    /\ search_start <= At(1, 10, 0, 0)
    /\ At(1, 12, 0, 0) <= search_end

\* The sweep has just applied the deltas at 11:00.
SweptEleven == pc = "sweep" /\ i > 0 /\ prev_time = At(1, 11, 0, 0)

\* C8 as claimed: in the touching case the instant 11:00 is free, counted busy
\* by neither subject, and a common-free window has a boundary at 11:00.
C8_AsClaimed ==
    TouchingCase =>
        /\ SweptEleven => active_busy = 0
        /\ Swept => \E w \in FreeWindows :
                        w[1] = At(1, 11, 0, 0) \/ w[2] = At(1, 11, 0, 0)

\* C8 as amended: in the touching case the two events at 11:00 are applied
\* together, so the busy count is 1 once 11:00 has been swept (subject B is
\* busy from 11:00 on); no common-free window starts or ends at 11:00, none
\* meets [10:00, 12:00), and the windows are the search window without
\* [10:00, 12:00).
C8_TouchingNoGap ==
    TouchingCase =>
        /\ SweptEleven => active_busy = 1
        /\ \A w \in FreeWindows :
            /\ w[1] # At(1, 11, 0, 0) /\ w[2] # At(1, 11, 0, 0)
            /\ ~Overlap(w[1], w[2], At(1, 10, 0, 0), At(1, 12, 0, 0))
        /\ Swept =>
            free_windows =
                (IF search_start < At(1, 10, 0, 0)
                 THEN << <<search_start, At(1, 10, 0, 0)>> >> ELSE <<>>)
                \o (IF At(1, 12, 0, 0) < search_end
                    THEN << <<At(1, 12, 0, 0), search_end>> >> ELSE <<>>)

\* The touching case swept to its end and answered, the event list holding
\* the -1 of A and the +1 of B at 11:00.
C8_Witness ==
    /\ TouchingCase
    /\ Responded
    /\ available_slots # <<>>
    /\ \E a, b \in 1..Len(events) :
        /\ events[a] = <<At(1, 11, 0, 0), 0 - 1>>
        /\ events[b] = <<At(1, 11, 0, 0), 1>>

\* The fixture of the happy-path test: search window 09:00-17:00 on day 1,
\* now at least 24 hours earlier, 60 minutes, workday hours 9-17, and the
\* busy blocks of subjects A and B.
FixtureCase ==
    /\ busy_schedules = FixtureSchedule
    /\ search_start = At(1, 9, 0, 0) /\ search_end = At(1, 17, 0, 0)
    /\ now_utc + timedelta_hours(24) <= search_start
    /\ Val(template).duration = 60
    /\ workday_start_hour = 9 /\ workday_end_hour = 17

SlotAt(h1, m1, h2, m2) ==
    [start |-> [wall |-> At(1, h1, m1, 0), tz |-> "Z"],
     end |-> [wall |-> At(1, h2, m2, 0), tz |-> "Z"]]

\* C9: in the fixture the common-free windows are [09:00,09:30),
\* [11:00,13:00), [13:30,15:30) and the slots are the six expected, in order.
C9_Fixture ==
    FixtureCase =>
        /\ Swept =>
            free_windows = << <<At(1, 9, 0, 0), At(1, 9, 30, 0)>>,
                              <<At(1, 11, 0, 0), At(1, 13, 0, 0)>>,
                              <<At(1, 13, 30, 0), At(1, 15, 30, 0)>> >>
        /\ Responded =>
            available_slots = << SlotAt(11, 0, 12, 0), SlotAt(11, 30, 12, 30),
                                 SlotAt(12, 0, 13, 0), SlotAt(13, 30, 14, 30),
                                 SlotAt(14, 0, 15, 0), SlotAt(14, 30, 15, 30) >>

\* The fixture, answered.
C9_Witness == FixtureCase /\ Responded

\* The schedules with every malformed busy block removed.
CleanedSchedules ==
    [p \in 1..Len(busy_schedules) |->
        [busy_schedules[p] EXCEPT !.busy = SelectSeq(@, BlockIsValid)]]

\* C10: a busy block with a bound missing, or not start < end, is dropped:
\* the request is answered 200, and the common-free windows and the slots are
\* the ones computed from the schedules without the malformed blocks.
C10_MalformedDropped ==
    LET clean_windows == compute_common_free_windows(
                             CleanedSchedules, search_start, search_end)
    IN /\ (pc = "done" /\ provider_calls > 0) => status_code = 200
       /\ Swept => free_windows = clean_windows
       /\ Responded =>
           available_slots = ExpandWindows(clean_windows, min_slot_start, DurationDelta,
                                           workday_start_hour, workday_end_hour)

\* A response with slots to schedules that hold a malformed block and a valid
\* block inside the search window.
C10_Witness ==
    /\ Responded
    /\ available_slots # <<>>
    /\ \E p \in 1..Len(busy_schedules) : \E n \in 1..Len(busy_schedules[p].busy) :
        ~BlockIsValid(busy_schedules[p].busy[n])
    /\ \E iv \in ValidBusy : search_start <= iv[1] /\ iv[2] <= search_end

\* The ceiling has been called once, and twice.
Ceiled == Len(ceil_results) >= 1
CeiledTwice == Len(ceil_results) = 2

\* An instant on the 30-minute grid: minute 0 or 30 of an hour, with no
\* seconds and no sub-seconds.
OnGrid(x) == x % timedelta_minutes(30) = 0

\* C11: ceil_to_half_hour_boundary(x) is the smallest instant on the
\* 30-minute grid that is >= x: it is on the grid and >= x, no grid instant
\* lies in [x, result), an instant on a boundary comes back unchanged, and any
\* seconds or sub-second residue moves the result to the next boundary
\* (12:00:00.000 -> 12:00, 12:00:00.001 -> 12:30, 12:30:00.001 -> 13:00).
C11_CeilIsLeastGridInstant ==
    Ceiled =>
        LET x == ceil_arg
            r == ceil_results[1]
        IN /\ OnGrid(r)
           /\ r >= x
           /\ \A g \in GridInstants(x, r) : g < x \/ g >= r
           /\ OnGrid(x) => r = x
           /\ ~OnGrid(x) => r > x
           /\ x = At(1, 12, 0, 0) => r = At(1, 12, 0, 0)
           /\ x = At(1, 12, 0, 1) => r = At(1, 12, 30, 0)
           /\ x = At(1, 12, 30, 1) => r = At(1, 13, 0, 0)

\* 12:30:00.001 has been rounded up to 13:00.
C11_Witness ==
    /\ Ceiled
    /\ ceil_arg = At(1, 12, 30, 1)
    /\ ceil_results[1] = At(1, 13, 0, 0)

\* C12: the ceiling is idempotent: applied to its own result it returns that
\* result.
C12_CeilIdempotent == CeiledTwice => ceil_results[2] = ceil_results[1]

\* An instant off the grid has been rounded up across midnight, and rounding
\* the result again left it in place.
C12_Witness ==
    /\ CeiledTwice
    /\ ceil_arg = At(1, 23, 59, 59999)
    /\ ceil_results[1] = At(2, 0, 0, 0)
    /\ ceil_results[2] = At(2, 0, 0, 0)

\* No valid busy interval of any subject meets the search window.
NothingBusyInWindow ==
    \A iv \in ValidBusy : ~Overlap(search_start, search_end, iv[1], iv[2])

\* C13: with zero subjects, or with no busy interval that meets the search
\* window (none at all, or all fully outside it), the merger returns exactly
\* one common-free window, the whole search window.
C13_WholeWindowWhenNothingBusy ==
    (Swept /\ NothingBusyInWindow) =>
        free_windows = << <<search_start, search_end>> >>

\* The merger has returned the whole search window although a subject has a
\* valid busy interval, all of them lying outside the search window.
C13_Witness ==
    /\ Swept
    /\ ValidBusy # {}
    /\ NothingBusyInWindow
    /\ free_windows = << <<search_start, search_end>> >>

\* The orders of n things, and a list taken in one of those orders.
Orders(n) == { f \in [1..n -> 1..n] : \A a, b \in 1..n : a # b => f[a] # f[b] }
Reordered(seq, f) == [k \in 1..Len(seq) |-> seq[f[k]]]

\* One subject's entry with its busy blocks in every order, and the schedules
\* the provider could have returned for the same subjects and the same busy
\* blocks: the subjects in any order, each one's blocks in any order.
BlockOrders(person) ==
    { [person EXCEPT !.busy = Reordered(@, g)] : g \in Orders(Len(person.busy)) }
ReorderedSchedules ==
    LET n == Len(busy_schedules)
        entries == UNION { BlockOrders(busy_schedules[p]) : p \in 1..n }
    IN { s \in [1..n -> entries] :
           \E f \in Orders(n) : \A k \in 1..n : s[k] \in BlockOrders(busy_schedules[f[k]]) }

\* C14: the slot list answered for the schedules as they were returned is the
\* slot list computed for the same subjects and the same busy blocks returned
\* in any other order, the search window, the hours, the duration and now
\* being the same.
C14_OrderIndependent ==
    LET slots_of(windows) ==
            ExpandWindows(windows, min_slot_start, DurationDelta,
                          workday_start_hour, workday_end_hour)
    IN Responded =>
        /\ available_slots = slots_of(free_windows)
        /\ \A schedules \in ReorderedSchedules :
            LET windows == compute_common_free_windows(
                               schedules, search_start, search_end)
            IN windows = free_windows \/ available_slots = slots_of(windows)

\* Slots have been answered for two subjects with two busy blocks each, which
\* can be returned in eight orders.
C14_Witness ==
    /\ Responded
    /\ available_slots # <<>>
    /\ Len(busy_schedules) = 2
    /\ \A p \in 1..2 : Len(busy_schedules[p].busy) = 2
    /\ busy_schedules[1].busy[1] # busy_schedules[1].busy[2]
    /\ Cardinality(ReorderedSchedules) = 8

\* C15: the windows the merger returns are well formed: each is non-empty and
\* lies in [search_start, search_end); they ascend, and the end of one is
\* before the start of the next; no busy interval meets a window; and the
\* windows are maximal, every instant of the search window outside them being
\* busy (tested where an uncovered span could begin: at search_start, at the
\* end of a busy interval and at the end of a window).
C15_WindowsWellFormed ==
    Swept =>
        LET busy == ValidBusy
            n == Len(free_windows)
            covered(x) ==
                \/ \E k \in 1..n : free_windows[k][1] <= x /\ x < free_windows[k][2]
                \/ \E iv \in busy : iv[1] <= x /\ x < iv[2]
            span_starts == {search_start} \cup { iv[2] : iv \in busy }
                               \cup { free_windows[k][2] : k \in 1..n }
        IN /\ \A k \in 1..n :
                 /\ free_windows[k][1] < free_windows[k][2]
                 /\ search_start <= free_windows[k][1]
                 /\ free_windows[k][2] <= search_end
                 /\ \A iv \in busy :
                        ~Overlap(free_windows[k][1], free_windows[k][2], iv[1], iv[2])
           /\ \A k \in 1..(n - 1) : free_windows[k][2] < free_windows[k + 1][1]
           /\ \A x \in span_starts :
                 (search_start <= x /\ x < search_end) => covered(x)

\* The merger has returned three windows, one of them begun at the search
\* start and one ended by a busy interval that runs past the search end.
C15_Witness ==
    /\ Swept
    /\ Len(free_windows) = 3
    /\ free_windows[1][1] = search_start
    /\ free_windows[3][2] < search_end
    /\ \E iv \in ValidBusy : iv[1] = free_windows[3][2] /\ iv[2] >= search_end

\* C16: the emitted slots ascend strictly by start time over the whole
\* response, so no slot is emitted twice.
C16_StrictlyAscending ==
    Responded =>
        /\ \A k \in 1..(Len(available_slots) - 1) : SlotStart(k) < SlotStart(k + 1)
        /\ Cardinality({ available_slots[k] : k \in SlotIndices }) = Len(available_slots)

\* A response whose slots come from two windows, a busy interval lying between
\* two consecutive slots, and in which two consecutive slots overlap.
C16_Witness ==
    /\ Responded
    /\ \E k \in 1..(Len(available_slots) - 1) : SlotStart(k + 1) < SlotEnd(k)
    /\ \E k \in 1..(Len(available_slots) - 1) : \E iv \in ValidBusy :
           SlotEnd(k) <= iv[1] /\ iv[2] <= SlotStart(k + 1)

\* The busy blocks that put events into the sweep, as <<subject, block>>
\* indices, and a block's interval clipped to the search window.
ClippedStart(p, n) ==
    Max(parse_iso8601(Val(raw_start_of(busy_schedules[p].busy[n]))), search_start)
ClippedEnd(p, n) ==
    Min(parse_iso8601(Val(raw_end_of(busy_schedules[p].busy[n]))), search_end)
ClippedBlocks ==
    { pn \in UNION { {p} \X (1..Len(busy_schedules[p].busy)) :
                         p \in 1..Len(busy_schedules) } :
          /\ BlockIsValid(busy_schedules[pn[1]].busy[pn[2]])
          /\ ClippedStart(pn[1], pn[2]) < ClippedEnd(pn[1], pn[2]) }

\* The sweep has applied the deltas at the timestamp prev_time.
SweptTo == pc \in {"sweep", "expand", "done"} /\ sweeps > 0 /\ i > 0

\* C17: after the deltas at a timestamp t have been applied the busy count is
\* the number of clipped busy intervals [s, e) with s <= t < e; the count is
\* never negative, and it is zero once the last event has been processed.
C17_SweepCount ==
    /\ active_busy >= 0
    /\ SweptTo =>
           active_busy =
               Cardinality({ pn \in ClippedBlocks :
                                 /\ ClippedStart(pn[1], pn[2]) <= prev_time
                                 /\ prev_time < ClippedEnd(pn[1], pn[2]) })
    /\ Swept => active_busy = 0

\* The sweep stands at a timestamp where two subjects are busy.
C17_Witness == pc = "sweep" /\ SweptTo /\ active_busy = 2

====
